---- MODULE Spec2Model ----
(***************************************************************************)
(* Model of the Plasma Merkle sum tree of plasma-utils:                    *)
(*   MerkleSumTree        (src/src/sum-tree/sum-tree.js)                   *)
(*   PlasmaMerkleSumTree  (src/unnamed/part_001)                           *)
(*                                                                         *)
(* Indices are 0-based as in the JavaScript source: At(arr, i) is arr[i]   *)
(* and Has(arr, i) says it is not undefined.  Results of calls are strings:*)
(* "true", "false", "ok", "undefined", and the two ways a call can throw,  *)
(* "Invalid leaf index" (the Error of the source) and "TypeError" (a       *)
(* property read on undefined).                                            *)
(*                                                                         *)
(* The calls PlasmaMerkleSumTree.hash, .parent and .emptyLeaf of part_001  *)
(* are the methods of these names of MerkleSumTree.  MerkleTreeNode, the   *)
(* constants and the serialization models are not part of the sources at   *)
(* hand: a node is its hash, its sum and data = hash followed by sum, and  *)
(* a proof object keeps the args it was made from.                         *)
(*                                                                         *)
(* Scale: coin ids are CoinBits wide instead of 128 bits and a JavaScript  *)
(* Number keeps MantissaBits significant bits instead of 53; as in the     *)
(* source, a Number is narrower than a coin id.                            *)
(***************************************************************************)
EXTENDS Integers, Sequences, FiniteSets, TLC

\* ------------------------------------------------------------------ bounds
CoinBits == 4
MantissaBits == 3
MaxLeaves == 3
MaxTransfers == 2

\* --------------------------------------------------------------- constants
MIN_COIN_ID == 0
MAX_COIN_ID == 2^CoinBits - 1

UNDEFINED == <<>>
ZERO_HASH == <<"0x0000000000000000000000000000000000000000000000000000000000000000">>
STUB_SIGNATURE == "1bd693b5"

\* ------------------------------------------------------------ JS helpers
\* UNDEFINED stands for the JavaScript value undefined where a proof element
\* is expected; Has(arr, i) says that arr[i] is not undefined.
IsUndefined(v) == Len(v) = 0

Has(arr, i) == i >= 0 /\ i < Len(arr)

At(arr, i) == arr[i + 1]

RECURSIVE BitLength(_)
BitLength(x) == IF x = 0 THEN 0 ELSE 1 + BitLength(x \div 2)

\* BN -> Number: `a.start - b.start` on two BN objects converts each through
\* its decimal string to a double, rounding to nearest, ties to even.
ToNumber(x) ==
  IF BitLength(x) <= MantissaBits THEN x
  ELSE LET unit == 2^(BitLength(x) - MantissaBits)
           q == x \div unit
           r == x % unit
           up == (2 * r > unit) \/ (2 * r = unit /\ q % 2 = 1)
       IN  (IF up THEN q + 1 ELSE q) * unit

RECURSIVE ToBase2(_)
ToBase2(n) ==
  IF n < 2 THEN <<IF n = 1 THEN "1" ELSE "0">>
  ELSE Append(ToBase2(n \div 2), IF n % 2 = 1 THEN "1" ELSE "0")

RECURSIVE PadLeft(_, _)
PadLeft(str, padding) ==
  IF Len(str) % padding = 0 THEN str ELSE PadLeft(<<"0">> \o str, padding)

\* bn.js toString(2, padding): `padding = padding | 0 || 1`, then zeros are
\* prepended until the length is a multiple of padding.
BNToString2(n, padding) == PadLeft(ToBase2(n), IF padding = 0 THEN 1 ELSE padding)

Reverse(str) == [i \in 1..Len(str) |-> str[Len(str) + 1 - i]]

\* -------------------------------------------------------- nodes and hash
\* soliditySha3, taken to be injective: the digest of a value is the value.
hash(value) == <<"H", value>>

MerkleTreeNode(h, s) == [hash |-> h, sum |-> s, data |-> <<h, s>>]

emptyLeaf == MerkleTreeNode(ZERO_HASH, 0)

\* parent that forgets the sum of the right child
parent_leftSumOnly(left, right) ==
  MerkleTreeNode(hash(<<"0x", left.data, right.data>>), left.sum)

parent(left, right) ==
  MerkleTreeNode(hash(<<"0x", left.data, right.data>>), left.sum + right.sum)

\* ------------------------------------------------------------ transactions
Transfer(s, e) == [start |-> s, end |-> e]

TransferPool == {Transfer(2, 3), Transfer(6, 7), Transfer(8, 10), Transfer(9, 10)}

\* A Transaction object: `id` is the object's identity (===), `encoded` its
\* canonical encoding, which is a function of its transfers only.
Transaction(id, transfers) == [id |-> id, transfers |-> transfers, encoded |-> transfers]

\* ----------------------------------------------------------- parseLeaves
RECURSIVE Flatten(_)
Flatten(txs) ==
  IF txs = <<>> THEN <<>>
  ELSE [k \in 1..Len(Head(txs).transfers) |->
          [start |-> Head(txs).transfers[k].start,
           end |-> Head(txs).transfers[k].end,
           encoded |-> <<"0x", Head(txs).encoded>>]] \o Flatten(Tail(txs))

compare(a, b) == ToNumber(a.start) - ToNumber(b.start)

RECURSIVE Insert(_, _)
Insert(sorted, x) ==
  IF sorted = <<>> THEN <<x>>
  ELSE IF compare(sorted[Len(sorted)], x) <= 0 THEN Append(sorted, x)
  ELSE Append(Insert(SubSeq(sorted, 1, Len(sorted) - 1), x), sorted[Len(sorted)])

RECURSIVE SortFrom(_, _)
SortFrom(sorted, rest) ==
  IF rest = <<>> THEN sorted ELSE SortFrom(Insert(sorted, Head(rest)), Tail(rest))

sort(arr) == SortFrom(<<>>, arr)

SortedLeaves(txs) == sort(Flatten(txs))

parseLeaves(txs) ==
  LET leaves == SortedLeaves(txs)
      n == Len(leaves)
      interior == [k \in 1..(IF n >= 2 THEN n - 2 ELSE 0) |->
                     MerkleTreeNode(hash(leaves[k + 1].encoded),
                                    leaves[k + 2].start - leaves[k + 1].start)]
  IN  IF n = 1 THEN [err |-> "none", parsed |-> <<MerkleTreeNode(hash(leaves[1].encoded), MAX_COIN_ID)>>]
      ELSE IF n = 0 THEN [err |-> "TypeError", parsed |-> <<>>]
      ELSE [err |-> "none",
            parsed |-> <<MerkleTreeNode(hash(leaves[1].encoded), leaves[2].start - MIN_COIN_ID)>>
                       \o interior
                       \o <<MerkleTreeNode(hash(leaves[n].encoded), MAX_COIN_ID - leaves[n].start)>>]

\* --------------------------------------------------------------- generate
\* pairing that stands the last child in for its own missing sibling
Parents_pairWithSelf(children) ==
  [p \in 1..((Len(children) + 1) \div 2) |->
     parent(children[2 * p - 1],
            IF 2 * p - 1 = Len(children) THEN children[2 * p - 1] ELSE children[2 * p])]

Parents(children) ==
  [p \in 1..((Len(children) + 1) \div 2) |->
     parent(children[2 * p - 1],
            IF 2 * p - 1 = Len(children) THEN emptyLeaf ELSE children[2 * p])]

\* The array `levels` as the call leaves it (it is pushed to in place).
RECURSIVE PushLevels(_, _)
PushLevels(children, lvls) ==
  IF Len(children) <= 1 THEN lvls
  ELSE PushLevels(Parents(children), Append(lvls, Parents(children)))

generate(children, lvls) ==
  IF Len(children) <= 1 THEN <<children>> ELSE PushLevels(children, lvls)

\* ------------------------------------------------------------ constructor
\* arg is "undefined" (no argument) or "list"; txs is the list then.
constructor(arg, txs) ==
  IF arg = "undefined"
  THEN [err |-> "none", leaves |-> <<>>, levels |-> generate(<<>>, <<<<>>>>)]
  ELSE LET bottom == parseLeaves(txs)
       IN  IF bottom.err # "none"
           THEN [err |-> bottom.err, leaves |-> txs, levels |-> <<>>]
           ELSE [err |-> "none", leaves |-> txs,
                 levels |-> generate(bottom.parsed, <<bottom.parsed>>)]

\* root(): the node levels[levels.length - 1][0], or undefined.
HasRoot(lvls) == Has(lvls[Len(lvls)], 0)

root(lvls) == At(lvls[Len(lvls)], 0)

\* ------------------------------------------------------- proof generation
\* the bounds test with > in the place of >=
InvalidLeafIndex_offByOne(lvls, index) == index > Len(lvls[1]) \/ index < 0

InvalidLeafIndex(lvls, index) == index >= Len(lvls[1]) \/ index < 0

SiblingIndex(index) == index + (IF index % 2 = 0 THEN 1 ELSE -1)

\* The loop of getInclusionProof / getTransferProof from level i upwards.
\* A missing sibling makes `node` the string emptyLeaf().data, and the
\* `node.data` that is pushed is then undefined.
RECURSIVE Branch(_, _, _)
Branch(lvls, i, siblingIndex) ==
  IF i >= Len(lvls) - 1 THEN <<>>
  ELSE LET pushed == IF Has(lvls[i + 1], siblingIndex)
                     THEN At(lvls[i + 1], siblingIndex).data
                     ELSE UNDEFINED
           parentIndex == IF siblingIndex = 0 THEN 0 ELSE siblingIndex \div 2
       IN  <<pushed>> \o Branch(lvls, i + 1, SiblingIndex(parentIndex))

getInclusionProof(lvls, index) ==
  IF InvalidLeafIndex(lvls, index)
  THEN [err |-> "Invalid leaf index", branch |-> <<>>]
  ELSE IF ~Has(lvls[1], index)
  THEN [err |-> "TypeError", branch |-> <<>>]
  ELSE [err |-> "none",
        branch |-> <<MerkleTreeNode(ZERO_HASH, At(lvls[1], index).sum).data>>
                   \o Branch(lvls, 0, SiblingIndex(index))]

\* new TransferProof(args): the object packages its args as given.
TransferProof(parsedSum, leafIndex, inclusionProof, signature) ==
  [parsedSum |-> parsedSum, leafIndex |-> leafIndex,
   inclusionProof |-> inclusionProof, signature |-> signature]

NoProof == TransferProof(0, 0, <<>>, "")

getTransferProof(lvls, leafIndex) ==
  IF InvalidLeafIndex(lvls, leafIndex)
  THEN [err |-> "Invalid leaf index", proof |-> NoProof]
  ELSE IF ~Has(lvls[1], leafIndex)
  THEN [err |-> "TypeError", proof |-> NoProof]
  ELSE [err |-> "none",
        proof |-> TransferProof(At(lvls[1], leafIndex).sum, leafIndex,
                                Branch(lvls, 0, SiblingIndex(leafIndex)),
                                STUB_SIGNATURE)]

\* for (leafIndex in this.leaves) if (this.leaves[leafIndex] === transaction)
TransactionLeafIndices(lvs, transaction) ==
  LET RECURSIVE Collect(_)
      Collect(k) == IF k >= Len(lvs) THEN <<>>
                    ELSE (IF At(lvs, k).id = transaction.id THEN <<k>> ELSE <<>>)
                         \o Collect(k + 1)
  IN  Collect(0)

getTransactionProof(lvs, lvls, transaction) ==
  LET indices == TransactionLeafIndices(lvs, transaction)
      results == [k \in 1..Len(indices) |-> getTransferProof(lvls, indices[k])]
      failed == {k \in 1..Len(indices) : results[k].err # "none"}
  IN  IF failed # {}
      THEN [err |-> results[CHOOSE k \in failed : \A j \in failed : k <= j].err,
            transferProofs |-> <<>>]
      ELSE [err |-> "none",
            transferProofs |-> [k \in 1..Len(indices) |-> results[k].proof]]

\* ----------------------------------------------------------- verification
checkSignature(transactionHash, signature) == TRUE

\* One pass of the loop body of checkTransferProof.  BN.add returns a new
\* number and the source drops it, so leftSum and rightSum keep their value.
CheckStep(st, encodedSibling, bit) ==
  LET sibling == MerkleTreeNode(encodedSibling[1], encodedSibling[2])
  IN  IF bit = "0"
      THEN [computedNode |-> parent(st.computedNode, sibling),
            leftSum |-> st.leftSum, rightSum |-> st.rightSum]
      ELSE [computedNode |-> parent(sibling, st.computedNode),
            leftSum |-> st.leftSum, rightSum |-> st.rightSum]

checkTransferProof(transaction, transferIndex, transferProof, rootData) ==
  LET leafIndex == transferProof.leafIndex
      inclusionProof == transferProof.inclusionProof
      path == Reverse(BNToString2(leafIndex, Len(inclusionProof)))
      transactionHash == hash(<<"0x", transaction.encoded>>)
      start == [computedNode |-> MerkleTreeNode(transactionHash, transferProof.parsedSum),
                leftSum |-> 0, rightSum |-> 0]
      RECURSIVE Loop(_, _)
      Loop(i, st) == IF i >= Len(inclusionProof) THEN st
                     ELSE Loop(i + 1, CheckStep(st, At(inclusionProof, i), At(path, i)))
      decodable == \A i \in 0..(Len(inclusionProof) - 1) : ~IsUndefined(At(inclusionProof, i))
      final == Loop(0, start)
      rootSum == final.computedNode.sum
      transfer == At(transaction.transfers, transferIndex)
      validSum == transfer.start >= final.leftSum /\ transfer.end <= rootSum - final.rightSum
      validRoot == final.computedNode.data = rootData
  IN  IF ~checkSignature(transactionHash, transferProof.signature) THEN "false"
      ELSE IF ~decodable THEN "TypeError"
      ELSE IF ~Has(transaction.transfers, transferIndex) THEN "TypeError"
      ELSE IF validSum /\ validRoot THEN "true" ELSE "false"

\* transferProofs.every((transferProof, transferIndex) => ...)
checkTransactionProof(transaction, transferProofs, rootData) ==
  LET RECURSIVE Every(_)
      Every(k) == IF k >= Len(transferProofs) THEN "true"
                  ELSE LET r == checkTransferProof(transaction, k, At(transferProofs, k), rootData)
                       IN  IF r = "true" THEN Every(k + 1) ELSE r
  IN  Every(0)

\* ------------------------------------------------------------------ state
VARIABLES
  arg,      \* how the constructor was called: "undefined" or "list"
  ctor,     \* "none" if the constructor returned, else the error it threw
  leaves,   \* this.leaves, the transactions given to the constructor
  levels,   \* this.levels
  held,     \* the proof object the caller holds, and what was done to it
  last      \* the last call on the tree or the verifier, and its outcome

vars == <<arg, ctor, leaves, levels, held, last>>

\* ------------------------------------------------------ constructor inputs
\* Lists of transactions: a sequence of distinct transfers from the pool, in
\* any order, cut into transactions of 1..MaxTransfers transfers each.
RECURSIVE Group(_, _, _)
Group(flat, sizes, id) ==
  IF sizes = <<>> THEN <<>>
  ELSE <<Transaction(id, SubSeq(flat, 1, Head(sizes)))>>
       \o Group(SubSeq(flat, Head(sizes) + 1, Len(flat)), Tail(sizes), id + 1)

RECURSIVE SumSeq(_)
SumSeq(q) == IF q = <<>> THEN 0 ELSE Head(q) + SumSeq(Tail(q))

Sizes(n) ==
  {q \in UNION {[1..k -> 1..MaxTransfers] : k \in 0..n} : SumSeq(q) = n}

Distinct(n) ==
  {flat \in [1..n -> TransferPool] : \A i, j \in 1..n : flat[i] = flat[j] => i = j}

TxLists ==
  UNION {{Group(flat, sizes, 0) : flat \in Distinct(n), sizes \in Sizes(n)} :
           n \in 0..MaxLeaves}

\* A transaction object that is in no tree.
ForeignTx == Transaction(-1, <<Transfer(2, 3)>>)

NoHeld == [kind |-> "none", proofs |-> <<>>, src |-> -1, tamper |-> "none", pos |-> -1]

NoCall == [op |-> "none", result |-> "none", index |-> -1, txPos |-> -1,
           trIndex |-> -1, root |-> "none"]

Call(op, result, index, txPos, trIndex, rt) ==
  [op |-> op, result |-> result, index |-> index, txPos |-> txPos,
   trIndex |-> trIndex, root |-> rt]

Init ==
  /\ arg \in {"undefined", "list"}
  /\ \E txs \in TxLists :
       /\ arg = "undefined" => txs = <<>>
       /\ ctor = constructor(arg, txs).err
       /\ leaves = constructor(arg, txs).leaves
       /\ levels = constructor(arg, txs).levels
  /\ held = NoHeld
  /\ last = NoCall

Built == ctor = "none"

\* The transaction the caller passes: one of the tree's, or a foreign one.
TxAt(txPos) == IF Has(leaves, txPos) THEN At(leaves, txPos) ELSE ForeignTx

TxPositions == -1..(Len(leaves) - 1)

\* The root argument of a check: the data of the tree's own root, or of
\* another node.
RootData(rt) == IF rt = "own" THEN root(levels).data ELSE emptyLeaf.data

\* ---------------------------------------------------------------- actions
\* A run is one case of the test suite: a tree is built, one call is made on
\* it; a proof obtained that way may be spoiled once and is then verified.
Fresh == held = NoHeld /\ last = NoCall

Verified == last.op \in {"checkTransferProof", "checkTransactionProof"}

Root ==
  /\ Built
  /\ Fresh
  /\ last' = Call("root", IF HasRoot(levels) THEN "node" ELSE "undefined", -1, -1, -1, "none")
  /\ UNCHANGED <<arg, ctor, leaves, levels, held>>

GetInclusionProof ==
  /\ Built
  /\ Fresh
  /\ \E index \in -1..(Len(levels[1]) + 1) :
       LET r == getInclusionProof(levels, index)
       IN  /\ held' = IF r.err = "none"
                      THEN [kind |-> "branch", proofs |-> <<r.branch>>, src |-> index,
                            tamper |-> "none", pos |-> -1]
                      ELSE NoHeld
           /\ last' = Call("getInclusionProof", IF r.err = "none" THEN "ok" ELSE r.err,
                           index, -1, -1, "none")
  /\ UNCHANGED <<arg, ctor, leaves, levels>>

GetTransferProof ==
  /\ Built
  /\ Fresh
  /\ \E leafIndex \in -1..(Len(levels[1]) + 1) :
       LET r == getTransferProof(levels, leafIndex)
       IN  /\ held' = IF r.err = "none"
                      THEN [kind |-> "transfer", proofs |-> <<r.proof>>, src |-> leafIndex,
                            tamper |-> "none", pos |-> -1]
                      ELSE NoHeld
           /\ last' = Call("getTransferProof", IF r.err = "none" THEN "ok" ELSE r.err,
                           leafIndex, -1, -1, "none")
  /\ UNCHANGED <<arg, ctor, leaves, levels>>

GetTransactionProof ==
  /\ Built
  /\ Fresh
  /\ \E txPos \in TxPositions :
       LET r == getTransactionProof(leaves, levels, TxAt(txPos))
       IN  /\ held' = IF r.err = "none"
                      THEN [kind |-> "transaction", proofs |-> r.transferProofs,
                            src |-> txPos, tamper |-> "none", pos |-> -1]
                      ELSE NoHeld
           /\ last' = Call("getTransactionProof", IF r.err = "none" THEN "ok" ELSE r.err,
                           -1, txPos, -1, "none")
  /\ UNCHANGED <<arg, ctor, leaves, levels>>

\* transferProof.args.leafIndex += 1 on one transfer proof of the held object
TamperLeafIndex ==
  /\ held.kind \in {"transfer", "transaction"}
  /\ held.tamper = "none"
  /\ ~Verified
  /\ \E k \in 1..Len(held.proofs) :
       held' = [held EXCEPT !.proofs[k].leafIndex = @ + 1,
                            !.tamper = "leafIndex", !.pos = k - 1]
  /\ last' = Call("tamper", "ok", -1, -1, -1, "none")
  /\ UNCHANGED <<arg, ctor, leaves, levels>>

\* Nodes a caller may put in the place of a sibling: the sentinel, the first
\* leaf, the root, and the sibling itself with another sum.
Spoofs(encodedSibling) ==
  {emptyLeaf.data, At(levels[1], 0).data, root(levels).data}
  \cup (IF IsUndefined(encodedSibling) THEN {}
        ELSE {<<encodedSibling[1], encodedSibling[2] + 1>>})

\* spoofedProof[pos] = node
TamperSibling ==
  /\ held.kind = "transfer"
  /\ held.tamper = "none"
  /\ ~Verified
  /\ \E pos \in 0..(Len(held.proofs[1].inclusionProof) - 1) :
       \E node \in Spoofs(At(held.proofs[1].inclusionProof, pos)) :
         /\ node # At(held.proofs[1].inclusionProof, pos)
         /\ held' = [held EXCEPT !.proofs[1].inclusionProof[pos + 1] = node,
                                 !.tamper = "sibling", !.pos = pos]
  /\ last' = Call("tamper", "ok", -1, -1, -1, "none")
  /\ UNCHANGED <<arg, ctor, leaves, levels>>

\* transactionProof.args.transferProofs.push(proof of some leaf): a caller
\* hands in more transfer proofs than getTransactionProof gave.
AppendTransferProof ==
  /\ held.kind = "transaction"
  /\ held.tamper = "none"
  /\ ~Verified
  /\ \E leafIndex \in 0..(Len(levels[1]) - 1) :
       held' = [held EXCEPT !.proofs = Append(@, getTransferProof(levels, leafIndex).proof),
                            !.tamper = "append", !.pos = Len(held.proofs)]
  /\ last' = Call("tamper", "ok", -1, -1, -1, "none")
  /\ UNCHANGED <<arg, ctor, leaves, levels>>

\* transferProof.args.leafIndex += 2 ** inclusionProof.length: an index with
\* the same low bits that does not fit the path.
TamperLeafIndexHigh ==
  /\ held.kind = "transfer"
  /\ held.tamper = "none"
  /\ ~Verified
  /\ held' = [held EXCEPT !.proofs[1].leafIndex = @ + 2^Len(held.proofs[1].inclusionProof),
                          !.tamper = "leafIndexHigh", !.pos = 0]
  /\ last' = Call("tamper", "ok", -1, -1, -1, "none")
  /\ UNCHANGED <<arg, ctor, leaves, levels>>

CheckTransferProof ==
  /\ Built
  /\ HasRoot(levels)
  /\ held.kind = "transfer"
  /\ ~Verified
  /\ \E txPos \in TxPositions, transferIndex \in 0..(MaxTransfers - 1), rt \in {"own", "other"} :
       last' = Call("checkTransferProof",
                    checkTransferProof(TxAt(txPos), transferIndex, held.proofs[1], RootData(rt)),
                    held.proofs[1].leafIndex, txPos, transferIndex, rt)
  /\ UNCHANGED <<arg, ctor, leaves, levels, held>>

CheckTransactionProof ==
  /\ Built
  /\ HasRoot(levels)
  /\ held.kind = "transaction"
  /\ ~Verified
  /\ \E txPos \in TxPositions, rt \in {"own", "other"} :
       last' = Call("checkTransactionProof",
                    checkTransactionProof(TxAt(txPos), held.proofs, RootData(rt)),
                    -1, txPos, -1, rt)
  /\ UNCHANGED <<arg, ctor, leaves, levels, held>>

Next ==
  \/ Root
  \/ GetInclusionProof
  \/ GetTransferProof
  \/ GetTransactionProof
  \/ TamperLeafIndex
  \/ TamperSibling
  \/ AppendTransferProof
  \/ TamperLeafIndexHigh
  \/ CheckTransferProof
  \/ CheckTransactionProof

Spec == Init /\ [][Next]_vars

\* =================================================================== claims
\* Vocabulary of the claims.
IsCheckTransfer == last.op = "checkTransferProof"

\* the check of the test suite: the transaction at the position the proof
\* was asked for, its transfer 0, the tree's own root
OwnCheck == IsCheckTransfer /\ last.root = "own" /\ last.txPos = held.src /\ last.trIndex = 0

\* every transaction has one transfer, the ranges do not overlap and come in
\* ascending order of start
SingleAscending ==
  /\ \A k \in 1..Len(leaves) : Len(leaves[k].transfers) = 1
  /\ \A j, k \in 1..Len(leaves) :
       j < k => leaves[j].transfers[1].end <= leaves[k].transfers[1].start

\* C1: a proof from getTransferProof(i), verified with leaves[i], transfer 0
\* and the tree's own root, is accepted, for every tree of single-transfer
\* transactions in ascending order and every leaf i.
C1_RoundTrip ==
  (OwnCheck /\ held.tamper = "none" /\ SingleAscending) => last.result = "true"

\* C2: the proof of leaf i with leafIndex replaced by i + 1 is rejected
\* (the check returns false) against the tree's own root.
C2_WrongIndexRejected ==
  (OwnCheck /\ held.tamper = "leafIndex") => last.result = "false"

\* Sums of the siblings left (path bit 1) and right (path bit 0) of the leaf.
SiblingSum(proof, bit) ==
  LET RECURSIVE Total(_)
      Total(i) == IF i >= Len(proof.inclusionProof) THEN 0
                  ELSE (IF (proof.leafIndex \div 2^i) % 2 = bit
                        THEN At(proof.inclusionProof, i)[2] ELSE 0) + Total(i + 1)
  IN  Total(0)

Decodable(proof) ==
  \A i \in 1..Len(proof.inclusionProof) : ~IsUndefined(proof.inclusionProof[i])

\* C3: the check returns true only if start >= leftSum and
\* end <= rootSum - rightSum, the sums being those of the proof's siblings
\* on the left and on the right of the path.
C3_RangeCheck ==
  (IsCheckTransfer /\ last.result = "true") =>
    LET proof == held.proofs[1]
        transfer == At(TxAt(last.txPos).transfers, last.trIndex)
        rootSum == proof.parsedSum + SiblingSum(proof, 0) + SiblingSum(proof, 1)
    IN  /\ transfer.start >= SiblingSum(proof, 1)
        /\ transfer.end <= rootSum - SiblingSum(proof, 0)

\* C4: on a tree of two or more leaves, a proof with one sibling replaced by
\* a different node is rejected (the check returns false) against the own root.
C4_TamperedSiblingRejected ==
  (OwnCheck /\ held.tamper = "sibling" /\ Len(levels[1]) >= 2) => last.result = "false"

\* The transfers of the tree in input order, and their place by exact start.
InputTransfers == Flatten(leaves)

Rank(k) ==
  Cardinality({j \in 1..Len(InputTransfers) :
                 InputTransfers[j].start < InputTransfers[k].start})

StartOfRank(r) ==
  InputTransfers[CHOOSE k \in 1..Len(InputTransfers) : Rank(k) = r].start

RuleSum(r, n) ==
  IF n = 1 THEN MAX_COIN_ID
  ELSE IF r = 0 THEN StartOfRank(1) - MIN_COIN_ID
  ELSE IF r = n - 1 THEN MAX_COIN_ID - StartOfRank(n - 1)
  ELSE StartOfRank(r + 1) - StartOfRank(r)

\* C5: parseLeaves gives one node per transfer, in ascending order of start;
\* the node of the transfer with the r-th smallest start is at position r,
\* has the digest of its transaction and the sum of the leaf sum rule.
C5_LeafSumRule ==
  (Built /\ arg = "list") =>
    LET n == Len(InputTransfers)
    IN  /\ Len(levels[1]) = n
        /\ \A k \in 1..n :
             /\ At(levels[1], Rank(k)).hash = hash(InputTransfers[k].encoded)
             /\ At(levels[1], Rank(k)).sum = RuleSum(Rank(k), n)

LeafSums == SumSeq([k \in 1..Len(levels[1]) |-> levels[1][k].sum])

\* C6: the sum of the root of a tree built from a non-empty list of
\* transactions is MAX_COIN_ID - MIN_COIN_ID, the total of the leaf sums.
C6_RootSum ==
  (Built /\ arg = "list") =>
    /\ HasRoot(levels)
    /\ root(levels).sum = MAX_COIN_ID - MIN_COIN_ID
    /\ root(levels).sum = LeafSums

\* a tree of an odd number of leaves, padded with the sentinel, whose root
\* was asked for
C6_Witness ==
  /\ Built /\ Len(levels[1]) = 3 /\ Len(levels) = 3
  /\ last.op = "root" /\ last.result = "node"
  /\ root(levels).sum = MAX_COIN_ID

\* The level-0 position of the j-th transfer (from 0) of the transaction at
\* txPos: where parseLeaves put it.
LeafOf(txPos, j) ==
  LET tx == At(leaves, txPos)
      mine == [start |-> At(tx.transfers, j).start, end |-> At(tx.transfers, j).end,
               encoded |-> <<"0x", tx.encoded>>]
  IN  CHOOSE p \in 0..(Len(levels[1]) - 1) : At(SortedLeaves(leaves), p) = mine

\* C7: getTransactionProof of a transaction of the tree with k transfers
\* returns k transfer proofs, the j-th being the proof of the leaf made from
\* the transaction's j-th transfer.
C7_TransactionProofCoversTransfers ==
  (last.op = "getTransactionProof" /\ last.txPos >= 0) =>
    LET tx == At(leaves, last.txPos)
    IN  /\ last.result = "ok"
        /\ Len(held.proofs) = Len(tx.transfers)
        /\ \A j \in 0..(Len(tx.transfers) - 1) :
             At(held.proofs, j) = getTransferProof(levels, LeafOf(last.txPos, j)).proof

\* C8: checkTransactionProof returns true exactly when checkTransferProof
\* returns true for every position of the transfer proofs, and an accepted
\* transaction proof with the leafIndex of one transfer proof changed is
\* rejected.
C8_TransactionProofConjunction ==
  (last.op = "checkTransactionProof") =>
    LET tx == TxAt(last.txPos)
        rd == RootData(last.root)
        original == [held.proofs EXCEPT ![held.pos + 1].leafIndex = @ - 1]
    IN  /\ (last.result = "true") <=>
             \A k \in 0..(Len(held.proofs) - 1) :
               checkTransferProof(tx, k, At(held.proofs, k), rd) = "true"
        /\ (held.tamper = "leafIndex" /\ checkTransactionProof(tx, original, rd) = "true")
             => last.result = "false"

\* C9: a tree constructed with no argument or with an empty list is built
\* without error, its levels are a single empty level, root() is undefined.
C9_EmptyTree ==
  (arg = "undefined" \/ leaves = <<>>) =>
    /\ ctor = "none"
    /\ levels = <<<<>>>>
    /\ last.op = "root" => last.result = "undefined"

\* C10: getInclusionProof(index) and getTransferProof(index) throw 'Invalid
\* leaf index', and return nothing, exactly when index < 0 or
\* index >= levels[0].length; a returned proof is the proof of that index;
\* on the empty tree every index is rejected.
C10_InvalidIndex ==
  (last.op \in {"getInclusionProof", "getTransferProof"}) =>
    /\ (last.result = "Invalid leaf index") <=>
         (last.index < 0 \/ last.index >= Len(levels[1]))
    /\ last.result = "Invalid leaf index" => held = NoHeld
    /\ last.result # "Invalid leaf index" =>
         /\ last.result = "ok"
         /\ held.src = last.index
         /\ held.kind = "transfer" => held.proofs[1].leafIndex = last.index
    /\ levels = <<<<>>>> => last.result = "Invalid leaf index"

\* the index just past the last leaf of a non-empty tree is refused
C10_Witness ==
  /\ last.op = "getTransferProof"
  /\ Len(levels[1]) >= 2
  /\ last.index = Len(levels[1])
  /\ last.result = "Invalid leaf index"
  /\ held = NoHeld

\* every sibling record of every transfer proof held is a 48-byte record
WellFormed == \A k \in 1..Len(held.proofs) : Decodable(held.proofs[k])

\* C11: on well-formed transfer proofs checkTransferProof (for a transfer of
\* the transaction) and checkTransactionProof (whatever the number of
\* transfer proofs) return true or false and do not throw.
C11_VerificationNeverThrows ==
  /\ (IsCheckTransfer /\ WellFormed /\ Has(TxAt(last.txPos).transfers, last.trIndex))
       => last.result \in {"true", "false"}
  /\ (last.op = "checkTransactionProof" /\ WellFormed)
       => last.result \in {"true", "false"}

\* C12: a transfer proof whose leafIndex does not fit in
\* inclusionProof.length bits (leafIndex >= 2^inclusionProof.length) is
\* never accepted: checkTransferProof does not return true for it.
C12_IndexPathMismatchRejected ==
  (IsCheckTransfer /\ held.proofs[1].leafIndex >= 2^Len(held.proofs[1].inclusionProof))
    => last.result # "true"

\* The data of the child at position c (from 0) of a level, the sentinel
\* (zero digest, sum 0) standing in for a missing one.
ChildData(level, c) == IF Has(level, c) THEN At(level, c).data ELSE <<ZERO_HASH, 0>>

ChildSum(level, c) == IF Has(level, c) THEN At(level, c).sum ELSE 0

RECURSIVE Halvings(_)
Halvings(n) == IF n <= 1 THEN 0 ELSE 1 + Halvings((n + 1) \div 2)

\* C13: for a tree of n >= 1 parsed leaves, levels[0] has n nodes, each
\* following level has ceil(length below / 2) nodes, its node p is the parent
\* of the nodes 2p and 2p+1 below (the sentinel for a missing 2p+1), the
\* last level has one node, and there are finitely many levels.
C13_LevelStructure ==
  (Built /\ arg = "list") =>
    /\ Len(levels[1]) = Len(InputTransfers)
    /\ Len(levels[1]) >= 1
    /\ Len(levels[Len(levels)]) = 1
    /\ Len(levels) = 1 + Halvings(Len(levels[1]))
    /\ \A i \in 1..(Len(levels) - 1) :
         /\ Len(levels[i + 1]) = (Len(levels[i]) + 1) \div 2
         /\ \A p \in 0..(Len(levels[i + 1]) - 1) :
              /\ At(levels[i + 1], p).hash =
                   <<"H", <<"0x", ChildData(levels[i], 2 * p), ChildData(levels[i], 2 * p + 1)>>>>
              /\ At(levels[i + 1], p).sum =
                   ChildSum(levels[i], 2 * p) + ChildSum(levels[i], 2 * p + 1)
              /\ At(levels[i + 1], p).data = <<At(levels[i + 1], p).hash, At(levels[i + 1], p).sum>>

\* a tree of three leaves: levels of 3, 2 and 1 nodes, the second node of
\* level 1 made of the last leaf and the sentinel
C13_Witness ==
  /\ Built /\ Len(levels) = 3
  /\ Len(levels[1]) = 3 /\ Len(levels[2]) = 2 /\ Len(levels[3]) = 1
  /\ At(levels[2], 1).sum = At(levels[1], 2).sum

\* q XOR 1
Xor1(q) == IF q % 2 = 0 THEN q + 1 ELSE q - 1

\* C14: the inclusionProof of getTransferProof(leafIndex) has
\* levels.length - 1 elements, and its element for level i is the encoded
\* node at position floor(leafIndex / 2^i) XOR 1 of levels[i], or the encoded
\* empty sentinel when that position lies beyond the end of the level.
C14_SiblingPathContent ==
  (last.op = "getTransferProof" /\ last.result = "ok" /\ held.tamper = "none") =>
    /\ Len(held.proofs[1].inclusionProof) = Len(levels) - 1
    /\ \A i \in 0..(Len(levels) - 2) :
         At(held.proofs[1].inclusionProof, i) =
           ChildData(levels[i + 1], Xor1(last.index \div 2^i))

====
